---- MODULE Spec2Model ----
(***************************************************************************)
(* Flash abstraction layer of stm32_littlefs (STM32F401RE, internal flash  *)
(* sectors 6 and 7 as a LittleFS block device).                            *)
(*                                                                         *)
(* Two variants of the engine exist in the source and both are modelled:   *)
(*   - the methods of class STM32F4FlashAbstractionLayer (prefix FAL_),    *)
(*   - the static free functions of main.cpp (prefix main_), which are the *)
(*     ones the LittleFS adapters (prefix lfs_) call.                      *)
(*                                                                         *)
(* Representation of machine integers.  The target is a 32-bit ARM build   *)
(* (gcc-arm-none-eabi): int, long, size_t and uint32_t are all 32 bits     *)
(* wide.  A long is an Integer.  A size_t or uint32_t value v is held as   *)
(* the Integer with the same 32-bit pattern read as two's complement: v    *)
(* itself below 2^31 and v - 2^32 from 2^31 on (so -1 stands for           *)
(* 0xFFFFFFFF).  The conversion (int)size of "return size" is then the     *)
(* identity, and unsigned sums and comparisons are computed on 16-bit      *)
(* limbs (U32, AddU32, LtU32) so that they wrap exactly as the build does. *)
(*                                                                         *)
(* Representation of the flash array.  The state holds the bytes of the    *)
(* addresses in Sampled only; a loop of the code over [addr, addr + size)  *)
(* is followed over the sampled addresses of that range, in ascending      *)
(* order.  Bytes take their values in ByteVals, a set closed under the     *)
(* bitwise AND that NOR flash programming computes.                        *)
(***************************************************************************)
EXTENDS Integers, Sequences, FiniteSets, TLC

(***************************************************************************)
(* Bounds of the model.                                                    *)
(***************************************************************************)
\* Number of engine calls followed from an initial state.
MaxCalls == 2

(***************************************************************************)
(* Constants of the source.                                                *)
(***************************************************************************)
FLASH_SECTOR_SIZE_BYTES == 128 * 1024
FLASH_TOTAL_SIZE_BYTES == 256 * 1024
BLOCK_SIZE_BYTES == 1024
LITTLE_FS_STARTIN_ADDRESS == 134479872   \* 0x08040000

ADDR_FLASH_SECTOR_0 == 134217728         \* 0x08000000
ADDR_FLASH_SECTOR_1 == 134234112         \* 0x08004000
ADDR_FLASH_SECTOR_2 == 134250496         \* 0x08008000
ADDR_FLASH_SECTOR_3 == 134266880         \* 0x0800C000
ADDR_FLASH_SECTOR_4 == 134283264         \* 0x08010000
ADDR_FLASH_SECTOR_5 == 134348800         \* 0x08020000
ADDR_FLASH_SECTOR_6 == 134479872         \* 0x08040000
ADDR_FLASH_SECTOR_7 == 134610944         \* 0x08060000
ADDR_FLASH_SECTOR_8 == 134742016         \* 0x08080000

\* The erased value the verifiers compare with.
ERASED == 255

(***************************************************************************)
(* 32-bit unsigned arithmetic on 16-bit limbs <<high, low>>.               *)
(***************************************************************************)
W16 == 256 * 256

\* The limbs of the 32-bit pattern of x.
U32(x) == <<(x \div W16) % W16, x % W16>>

\* Unsigned sum modulo 2^32.
AddU32(a, b) == <<(a[1] + b[1] + ((a[2] + b[2]) \div W16)) % W16, (a[2] + b[2]) % W16>>

\* Unsigned comparison.
LtU32(a, b) == a[1] < b[1] \/ (a[1] = b[1] /\ a[2] < b[2])

\* The 32-bit pattern read back as two's complement.
S32(a) == IF a[1] >= W16 \div 2 THEN (a[1] - W16) * W16 + a[2] ELSE a[1] * W16 + a[2]

(***************************************************************************)
(* Bytes.                                                                  *)
(***************************************************************************)
ByteVals == {0, 15, 240, 255}

RECURSIVE BitAndN(_, _, _)
BitAndN(a, b, n) == IF n = 0 THEN 0 ELSE ((a % 2) * (b % 2)) + 2 * BitAndN(a \div 2, b \div 2, n - 1)

\* uint8_t a & b.
BitAnd(a, b) == BitAndN(a, b, 8)

\* TRUE iff d has a 1 bit where old has a 0 bit.
NeedsSetBit(old, d) == BitAnd(old, d) # d

(***************************************************************************)
(* The sampled flash addresses: first byte of the region (sector 6), first *)
(* byte of the second 4 KiB block, last byte of sector 6, first byte of    *)
(* sector 7.                                                               *)
(***************************************************************************)
Sampled == {LITTLE_FS_STARTIN_ADDRESS,
            LITTLE_FS_STARTIN_ADDRESS + 4096,
            LITTLE_FS_STARTIN_ADDRESS + FLASH_SECTOR_SIZE_BYTES - 1,
            LITTLE_FS_STARTIN_ADDRESS + FLASH_SECTOR_SIZE_BYTES}

\* The sampled addresses of [addr, addr + size); a size whose pattern is
\* 2^31 or more reaches past the end of the flash.
CellsIn(addr, size) == {a \in Sampled : a >= addr /\ (size < 0 \/ a < addr + size)}

\* TRUE iff the loop over [addr, addr + size) runs past the last flash byte.
RunsPastFlash(addr, size) == size < 0 \/ addr + size > ADDR_FLASH_SECTOR_8

RECURSIVE SortedSeq(_)
SortedSeq(S) == IF S = {} THEN <<>> ELSE LET m == CHOOSE x \in S : \A y \in S : x <= y IN <<m>> \o SortedSeq(S \ {m})

\* flash: the bytes of the sampled addresses; locked: the lock bit of the
\* flash controller; the three counters of the source; last: the record of
\* the last call and prev the record of the one before it (kept by the
\* specifications that follow a fixed sequence of calls); calls: the number
\* of calls made.
VARIABLES flash, locked, ef_err_port_cnt, on_ic_write_cnt, on_ic_read_cnt, last, prev, calls, adapter

vars == <<flash, locked, ef_err_port_cnt, on_ic_write_cnt, on_ic_read_cnt, last, prev, calls, adapter>>

(***************************************************************************)
(* Geometry.                                                               *)
(***************************************************************************)
FLASH_SECTOR_0 == 0
FLASH_SECTOR_1 == 1
FLASH_SECTOR_2 == 2
FLASH_SECTOR_3 == 3
FLASH_SECTOR_4 == 4
FLASH_SECTOR_5 == 5
FLASH_SECTOR_6 == 6
FLASH_SECTOR_7 == 7

\* A lookup that takes every sector for one of 16 KiB.
getSectorFromOffset_Uniform(addr) == (addr - ADDR_FLASH_SECTOR_0) \div (16 * 1024)

\* A lookup that takes sector 5 for one of 64 KiB, so that sector 6 starts
\* 192 KiB and sector 7 starts 256 KiB - 64 KiB above the flash base.
getSectorFromOffset_Short5(addr) ==
  IF addr < ADDR_FLASH_SECTOR_0 + 128 * 1024 THEN getSectorFromOffset_Uniform(addr) \div 4
  ELSE IF addr < ADDR_FLASH_SECTOR_0 + 192 * 1024 THEN FLASH_SECTOR_5
  ELSE IF addr < ADDR_FLASH_SECTOR_0 + 256 * 1024 - 64 * 1024 THEN FLASH_SECTOR_6
  ELSE FLASH_SECTOR_7

\* STM32F4FlashAbstractionLayer::getSectorFromOffset (addresses below 2^31).
getSectorFromOffset(addr) ==
  IF (addr < ADDR_FLASH_SECTOR_1) /\ (addr >= ADDR_FLASH_SECTOR_0) THEN FLASH_SECTOR_0
  ELSE IF (addr < ADDR_FLASH_SECTOR_2) /\ (addr >= ADDR_FLASH_SECTOR_1) THEN FLASH_SECTOR_1
  ELSE IF (addr < ADDR_FLASH_SECTOR_3) /\ (addr >= ADDR_FLASH_SECTOR_2) THEN FLASH_SECTOR_2
  ELSE IF (addr < ADDR_FLASH_SECTOR_4) /\ (addr >= ADDR_FLASH_SECTOR_3) THEN FLASH_SECTOR_3
  ELSE IF (addr < ADDR_FLASH_SECTOR_5) /\ (addr >= ADDR_FLASH_SECTOR_4) THEN FLASH_SECTOR_4
  ELSE IF (addr < ADDR_FLASH_SECTOR_6) /\ (addr >= ADDR_FLASH_SECTOR_5) THEN FLASH_SECTOR_5
  ELSE IF (addr < ADDR_FLASH_SECTOR_7) /\ (addr >= ADDR_FLASH_SECTOR_6) THEN FLASH_SECTOR_6
  ELSE FLASH_SECTOR_7

\* A lookup whose ranges are open below and closed above: the base of a
\* sector falls in the sector before it.
stm32_get_sector_ClosedAbove(addr) ==
  IF (addr <= ADDR_FLASH_SECTOR_1) /\ (addr > ADDR_FLASH_SECTOR_0) THEN FLASH_SECTOR_0
  ELSE IF (addr <= ADDR_FLASH_SECTOR_2) /\ (addr > ADDR_FLASH_SECTOR_1) THEN FLASH_SECTOR_1
  ELSE IF (addr <= ADDR_FLASH_SECTOR_3) /\ (addr > ADDR_FLASH_SECTOR_2) THEN FLASH_SECTOR_2
  ELSE IF (addr <= ADDR_FLASH_SECTOR_4) /\ (addr > ADDR_FLASH_SECTOR_3) THEN FLASH_SECTOR_3
  ELSE IF (addr <= ADDR_FLASH_SECTOR_5) /\ (addr > ADDR_FLASH_SECTOR_4) THEN FLASH_SECTOR_4
  ELSE IF (addr <= ADDR_FLASH_SECTOR_6) /\ (addr > ADDR_FLASH_SECTOR_5) THEN FLASH_SECTOR_5
  ELSE IF (addr <= ADDR_FLASH_SECTOR_7) /\ (addr > ADDR_FLASH_SECTOR_6) THEN FLASH_SECTOR_6
  ELSE IF (addr <= ADDR_FLASH_SECTOR_8) /\ (addr > ADDR_FLASH_SECTOR_7) THEN FLASH_SECTOR_7
  ELSE 0

\* A lookup that knows sector 6 only.
stm32_get_sector_Always6(addr) == FLASH_SECTOR_6

\* stm32_get_sector of main.cpp as built for the STM32F401RE, whose HAL
\* defines FLASH_SECTOR_0 .. FLASH_SECTOR_7 only: the chain ends with the
\* test for sector 7 and an address no test accepts keeps sector = 0.
stm32_get_sector(addr) ==
  IF (addr < ADDR_FLASH_SECTOR_1) /\ (addr >= ADDR_FLASH_SECTOR_0) THEN FLASH_SECTOR_0
  ELSE IF (addr < ADDR_FLASH_SECTOR_2) /\ (addr >= ADDR_FLASH_SECTOR_1) THEN FLASH_SECTOR_1
  ELSE IF (addr < ADDR_FLASH_SECTOR_3) /\ (addr >= ADDR_FLASH_SECTOR_2) THEN FLASH_SECTOR_2
  ELSE IF (addr < ADDR_FLASH_SECTOR_4) /\ (addr >= ADDR_FLASH_SECTOR_3) THEN FLASH_SECTOR_3
  ELSE IF (addr < ADDR_FLASH_SECTOR_5) /\ (addr >= ADDR_FLASH_SECTOR_4) THEN FLASH_SECTOR_4
  ELSE IF (addr < ADDR_FLASH_SECTOR_6) /\ (addr >= ADDR_FLASH_SECTOR_5) THEN FLASH_SECTOR_5
  ELSE IF (addr < ADDR_FLASH_SECTOR_7) /\ (addr >= ADDR_FLASH_SECTOR_6) THEN FLASH_SECTOR_6
  ELSE IF (addr < ADDR_FLASH_SECTOR_8) /\ (addr >= ADDR_FLASH_SECTOR_7) THEN FLASH_SECTOR_7
  ELSE 0

\* LITTLE_FS_STARTIN_ADDRESS + offset, and addr + size - 1, in 32 bits.
AddrAdd(a, b) == S32(AddU32(U32(a), U32(b)))

(***************************************************************************)
(* The vendor flash interface (HAL), as the engines use it.                *)
(***************************************************************************)
\* The bases of the device's sectors 0..7 and the end of sector 7, as the
\* source lists them: sector k is [SectorBase[k+1], SectorBase[k+2]).
SectorBase == <<ADDR_FLASH_SECTOR_0, ADDR_FLASH_SECTOR_1, ADDR_FLASH_SECTOR_2, ADDR_FLASH_SECTOR_3,
                ADDR_FLASH_SECTOR_4, ADDR_FLASH_SECTOR_5, ADDR_FLASH_SECTOR_6, ADDR_FLASH_SECTOR_7,
                ADDR_FLASH_SECTOR_8>>

\* The sector the device holds address a in.
HwSectorOf(a) == CHOOSE k \in 0..7 : SectorBase[k + 1] <= a /\ a < SectorBase[k + 2]

\* The sectors HAL_FLASHEx_Erase walks: index = Sector while index <
\* NbSectors + Sector (32-bit unsigned).
EraseSpan(Sector, NbSectors) == {k \in 0..7 : Sector <= k /\ LtU32(U32(k), AddU32(U32(NbSectors), U32(Sector)))}

\* HAL_FLASHEx_Erase: sectors are erased in ascending order; the sectors of
\* F fail, and the first failure ends the call with an error, the failing
\* sector and those after it untouched.
HAL_FLASHEx_Erase(f, Sector, NbSectors, F) ==
  LET span == EraseSpan(Sector, NbSectors)
      done == {k \in span : \A j \in F \cap span : k < j}
  IN [flash |-> [a \in DOMAIN f |-> IF HwSectorOf(a) \in done THEN ERASED ELSE f[a]],
      ok |-> (F \cap span = {})]

\* HAL_FLASH_Program(FLASH_TYPEPROGRAM_BYTE, a, d) returning HAL_OK: NOR
\* programming clears bits and never sets one.
HAL_FLASH_Program(f, a, d) == [f EXCEPT ![a] = BitAnd(f[a], d)]

\* The log of one call, in the order of its accesses to the flash:
\* <<"Unlock">>, <<"Lock">>, <<"Erase", Sector, NbSectors>>,
\* <<"Program", address, data>>, <<"ReadBack", address, value read>>.
HwOps(hw, kind) == {i \in 1..Len(hw) : hw[i][1] = kind}

(***************************************************************************)
(* The record of the last call.  ret is meaningful when returned is TRUE;  *)
(* returned is FALSE when the call ran off the mapped flash and the core   *)
(* took a bus fault instead of returning.                                  *)
(***************************************************************************)
NoCall == [op |-> "none", offset |-> 0, size |-> 0, buf |-> <<>>, nullbuf |-> FALSE,
           ret |-> 0, returned |-> TRUE, out |-> <<>>, hw |-> <<>>, path |-> "none"]

\* path names the return statement the call left by: "rejected" (a failed
\* validation), "hal" (the hardware reported a failure), "mismatch" (a
\* read-back differed), "ok" (the final return), "fault" (no return).
Call(op, offset, size, buf, nullbuf, ret, returned, out, hw, path) ==
  [op |-> op, offset |-> offset, size |-> size, buf |-> buf, nullbuf |-> nullbuf,
   ret |-> ret, returned |-> returned, out |-> out, hw |-> hw, path |-> path]

\* A source buffer <<e, o>> holds e at the even and o at the odd indices.
BufAt(buf, i) == IF i % 2 = 0 THEN buf[1] ELSE buf[2]

\* After a bus fault nothing runs any more.
Running == last.returned

\* The last call of a block-device function of main.cpp: its arguments, the
\* offset and the result of the flash function it called, and its status.
NoAdapter == [op |-> "none", block_size |-> 0, block |-> 0, off |-> 0, size |-> 0,
              offset |-> 0, result |-> 0, returned |-> TRUE, ret |-> 0]

(***************************************************************************)
(* class STM32F4FlashAbstractionLayer.                                     *)
(***************************************************************************)
\* The validation of erase and of write:
\* offset < 0 || offset >= FLASH_TOTAL_SIZE_BYTES || size == 0 ||
\* (offset + size) > FLASH_TOTAL_SIZE_BYTES, the last three unsigned.
FAL_InvalidRange(offset, size) ==
  \/ offset < 0
  \/ ~LtU32(U32(offset), U32(FLASH_TOTAL_SIZE_BYTES))
  \/ size = 0
  \/ LtU32(U32(FLASH_TOTAL_SIZE_BYTES), AddU32(U32(offset), U32(size)))

\* The first validation of read: !buf || size == 0.
FAL_read_InvalidArg(nullbuf, size) == nullbuf \/ size = 0

\* The second validation of read.
FAL_read_InvalidRange(offset, size) ==
  \/ offset < 0
  \/ ~LtU32(U32(offset), U32(FLASH_TOTAL_SIZE_BYTES))
  \/ LtU32(U32(FLASH_TOTAL_SIZE_BYTES), AddU32(U32(offset), U32(size)))

\* An erase that always starts at sector 6.
FAL_FirstSector_Always6(addr) == FLASH_SECTOR_6

\* EraseInitStruct.Sector of erase.
FAL_FirstSector(addr) == getSectorFromOffset(addr)

\* A count of sectors taken from the size alone, whatever the offset.
FAL_NbOfSectors_BySize(addr, size) == (size + FLASH_SECTOR_SIZE_BYTES - 1) \div FLASH_SECTOR_SIZE_BYTES

\* A count of sectors that leaves the last one out.
FAL_NbOfSectors_LastOut(addr, size) == getSectorFromOffset(AddrAdd(AddrAdd(addr, size), -1)) - FAL_FirstSector(addr)

\* EraseInitStruct.NbSectors of erase (uint32_t).
FAL_NbOfSectors(addr, size) == getSectorFromOffset(AddrAdd(AddrAdd(addr, size), -1)) - FAL_FirstSector(addr) + 1

\* An erase that issues the transaction a second time when the hardware
\* fails the first, and the second succeeds.
FAL_erase_RetriesOnce(offset, size, F) ==
  LET addr == AddrAdd(LITTLE_FS_STARTIN_ADDRESS, offset) IN
  /\ Running
  /\ UNCHANGED <<on_ic_write_cnt, on_ic_read_cnt>>
  /\ IF FAL_InvalidRange(offset, size)
     THEN /\ ef_err_port_cnt' = ef_err_port_cnt + 1
          /\ UNCHANGED <<flash, locked>>
          /\ last' = Call("erase", offset, size, <<>>, FALSE, -1, TRUE, <<>>, <<>>, "rejected")
     ELSE LET FirstSector == FAL_FirstSector(addr)
              NbOfSectors == FAL_NbOfSectors(addr, size)
              r == HAL_FLASHEx_Erase(flash, FirstSector, NbOfSectors, F)
              again == HAL_FLASHEx_Erase(r.flash, FirstSector, NbOfSectors, {})
              op == <<"Erase", FirstSector, NbOfSectors>>
          IN /\ flash' = again.flash
             /\ locked' = TRUE
             /\ ef_err_port_cnt' = ef_err_port_cnt
             /\ last' = Call("erase", offset, size, <<>>, FALSE, size, TRUE, <<>>,
                             IF r.ok THEN <<<<"Unlock">>, op, <<"Lock">>>>
                             ELSE <<<<"Unlock">>, op, op, <<"Lock">>>>, "ok")

\* An erase that returns on a hardware failure without locking the flash
\* controller again.
FAL_erase_NoLockOnFailure(offset, size, F) ==
  LET addr == AddrAdd(LITTLE_FS_STARTIN_ADDRESS, offset) IN
  /\ Running
  /\ UNCHANGED <<on_ic_write_cnt, on_ic_read_cnt>>
  /\ IF FAL_InvalidRange(offset, size)
     THEN /\ ef_err_port_cnt' = ef_err_port_cnt + 1
          /\ UNCHANGED <<flash, locked>>
          /\ last' = Call("erase", offset, size, <<>>, FALSE, -1, TRUE, <<>>, <<>>, "rejected")
     ELSE LET FirstSector == FAL_FirstSector(addr)
              NbOfSectors == FAL_NbOfSectors(addr, size)
              r == HAL_FLASHEx_Erase(flash, FirstSector, NbOfSectors, F)
              hw == <<<<"Unlock">>, <<"Erase", FirstSector, NbOfSectors>>>>
          IN /\ flash' = r.flash
             /\ locked' = r.ok
             /\ IF r.ok
                THEN /\ ef_err_port_cnt' = ef_err_port_cnt
                     /\ last' = Call("erase", offset, size, <<>>, FALSE, size, TRUE, <<>>, Append(hw, <<"Lock">>), "ok")
                ELSE /\ ef_err_port_cnt' = ef_err_port_cnt + 1
                     /\ last' = Call("erase", offset, size, <<>>, FALSE, -1, TRUE, <<>>, hw, "hal")

\* STM32F4FlashAbstractionLayer::erase; F is the set of sectors whose
\* erasure the hardware fails.
FAL_erase(offset, size, F) ==
  LET addr == AddrAdd(LITTLE_FS_STARTIN_ADDRESS, offset) IN
  /\ Running
  /\ UNCHANGED <<on_ic_write_cnt, on_ic_read_cnt>>
  /\ IF FAL_InvalidRange(offset, size)
     THEN /\ ef_err_port_cnt' = ef_err_port_cnt + 1
          /\ UNCHANGED <<flash, locked>>
          /\ last' = Call("erase", offset, size, <<>>, FALSE, -1, TRUE, <<>>, <<>>, "rejected")
     ELSE LET FirstSector == FAL_FirstSector(addr)
              NbOfSectors == FAL_NbOfSectors(addr, size)
              r == HAL_FLASHEx_Erase(flash, FirstSector, NbOfSectors, F)
              hw == <<<<"Unlock">>, <<"Erase", FirstSector, NbOfSectors>>, <<"Lock">>>>
          IN /\ flash' = r.flash
             /\ locked' = TRUE
             /\ IF r.ok
                THEN /\ ef_err_port_cnt' = ef_err_port_cnt
                     /\ last' = Call("erase", offset, size, <<>>, FALSE, size, TRUE, <<>>, hw, "ok")
                ELSE /\ ef_err_port_cnt' = ef_err_port_cnt + 1
                     /\ last' = Call("erase", offset, size, <<>>, FALSE, -1, TRUE, <<>>, hw, "hal")

\* A read-back that is not compared when the source byte is 0xFF.
ReadBackDiffers_SkipsErased(f, a, d) == d # ERASED /\ f[a] # d

\* A write that never compares the byte it reads back.
ReadBackDiffers_Never(f, a, d) == FALSE

\* if (*(uint8_t*)(addr + i) != buf[i]) of write.
ReadBackDiffers(f, a, d) == f[a] # d

\* The loop of write over the cells still to program: each byte is
\* programmed, then read back and compared.  halFail holds the index at
\* which HAL_FLASH_Program fails, if any.  The log keeps each call of
\* HAL_FLASH_Program and each read of *(uint8_t*)(addr + i) with the value
\* read.
RECURSIVE ProgramLoop(_, _, _, _, _, _)
ProgramLoop(f, addr, buf, cells, halFail, hw) ==
  IF cells = <<>> THEN [flash |-> f, status |-> "done", hw |-> hw]
  ELSE LET a == Head(cells)
           d == BufAt(buf, a - addr)
           hw2 == Append(hw, <<"Program", a, d>>)
       IN IF (a - addr) \in halFail THEN [flash |-> f, status |-> "failed", hw |-> hw2]
          ELSE LET f2 == HAL_FLASH_Program(f, a, d)
                   hw3 == Append(hw2, <<"ReadBack", a, f2[a]>>)
               IN IF ReadBackDiffers(f2, a, d) THEN [flash |-> f2, status |-> "mismatch", hw |-> hw3]
                  ELSE ProgramLoop(f2, addr, buf, Tail(cells), halFail, hw3)

\* The call of HAL_FLASH_Program that fails at an index that is not sampled.
FailedProgram(addr, buf, halFail) ==
  LET k == CHOOSE i \in halFail : TRUE IN <<"Program", addr + k, BufAt(buf, k)>>

\* A write that restores the bytes it programmed when it aborts.
WriteBytes_RollsBack(f, addr, buf, size, halFail) ==
  LET before == {a \in CellsIn(addr, size) : \A i \in halFail : a - addr <= i}
      r == ProgramLoop(f, addr, buf, SortedSeq(before), halFail, <<>>)
  IN IF r.status = "done" /\ halFail # {}
     THEN [r EXCEPT !.status = "failed", !.flash = f, !.hw = Append(r.hw, FailedProgram(addr, buf, halFail))]
     ELSE IF r.status = "done" /\ RunsPastFlash(addr, size) THEN [r EXCEPT !.status = "fault"]
     ELSE IF r.status = "done" THEN r
     ELSE [r EXCEPT !.flash = f]

\* for (size_t i = 0; i < size; i++) of write, from the first byte.  A
\* failure of HAL_FLASH_Program at an index that is not sampled shows once
\* the sampled bytes before it are programmed; a loop that runs past the
\* last flash byte ends in a bus fault.
WriteBytes(f, addr, buf, size, halFail) ==
  LET before == {a \in CellsIn(addr, size) : \A i \in halFail : a - addr <= i}
      r == ProgramLoop(f, addr, buf, SortedSeq(before), halFail, <<>>)
  IN IF r.status = "done" /\ halFail # {}
     THEN [r EXCEPT !.status = "failed", !.hw = Append(r.hw, FailedProgram(addr, buf, halFail))]
     ELSE IF r.status = "done" /\ RunsPastFlash(addr, size) THEN [r EXCEPT !.status = "fault"]
     ELSE r

\* A write that counts once for every byte it programs.
FAL_write_CountsPerByte(offset, buf, size, halFail) ==
  LET addr == AddrAdd(LITTLE_FS_STARTIN_ADDRESS, offset) IN
  /\ Running
  /\ UNCHANGED <<on_ic_read_cnt>>
  /\ IF FAL_InvalidRange(offset, size)
     THEN /\ ef_err_port_cnt' = ef_err_port_cnt + 1
          /\ UNCHANGED <<flash, on_ic_write_cnt, locked>>
          /\ last' = Call("write", offset, size, buf, FALSE, -1, TRUE, <<>>, <<>>, "rejected")
     ELSE LET r == WriteBytes(flash, addr, buf, size, halFail) IN
          /\ flash' = r.flash
          /\ CASE r.status = "done" ->
                    /\ locked' = TRUE
                    /\ on_ic_write_cnt' = on_ic_write_cnt + Cardinality(HwOps(r.hw, "Program"))
                    /\ ef_err_port_cnt' = ef_err_port_cnt
                    /\ last' = Call("write", offset, size, buf, FALSE, size, TRUE, <<>>,
                                    <<<<"Unlock">>>> \o r.hw \o <<<<"Lock">>>>, "ok")
               [] r.status = "fault" ->
                    /\ locked' = FALSE
                    /\ UNCHANGED <<on_ic_write_cnt, ef_err_port_cnt>>
                    /\ last' = Call("write", offset, size, buf, FALSE, 0, FALSE, <<>>,
                                    <<<<"Unlock">>>> \o r.hw, "fault")
               [] OTHER ->
                    /\ locked' = TRUE
                    /\ on_ic_write_cnt' = on_ic_write_cnt
                    /\ ef_err_port_cnt' = ef_err_port_cnt + 1
                    /\ last' = Call("write", offset, size, buf, FALSE, -1, TRUE, <<>>,
                                    <<<<"Unlock">>>> \o r.hw \o <<<<"Lock">>>>,
                                    IF r.status = "failed" THEN "hal" ELSE "mismatch")

\* STM32F4FlashAbstractionLayer::write.
FAL_write(offset, buf, size, halFail) ==
  LET addr == AddrAdd(LITTLE_FS_STARTIN_ADDRESS, offset) IN
  /\ Running
  /\ UNCHANGED <<on_ic_read_cnt>>
  /\ IF FAL_InvalidRange(offset, size)
     THEN /\ ef_err_port_cnt' = ef_err_port_cnt + 1
          /\ UNCHANGED <<flash, on_ic_write_cnt, locked>>
          /\ last' = Call("write", offset, size, buf, FALSE, -1, TRUE, <<>>, <<>>, "rejected")
     ELSE LET r == WriteBytes(flash, addr, buf, size, halFail) IN
          /\ flash' = r.flash
          /\ CASE r.status = "done" ->
                    /\ locked' = TRUE
                    /\ on_ic_write_cnt' = on_ic_write_cnt + 1
                    /\ ef_err_port_cnt' = ef_err_port_cnt
                    /\ last' = Call("write", offset, size, buf, FALSE, size, TRUE, <<>>,
                                    <<<<"Unlock">>>> \o r.hw \o <<<<"Lock">>>>, "ok")
               [] r.status = "fault" ->
                    /\ locked' = FALSE
                    /\ UNCHANGED <<on_ic_write_cnt, ef_err_port_cnt>>
                    /\ last' = Call("write", offset, size, buf, FALSE, 0, FALSE, <<>>,
                                    <<<<"Unlock">>>> \o r.hw, "fault")
               [] OTHER ->
                    /\ locked' = TRUE
                    /\ on_ic_write_cnt' = on_ic_write_cnt
                    /\ ef_err_port_cnt' = ef_err_port_cnt + 1
                    /\ last' = Call("write", offset, size, buf, FALSE, -1, TRUE, <<>>,
                                    <<<<"Unlock">>>> \o r.hw \o <<<<"Lock">>>>,
                                    IF r.status = "failed" THEN "hal" ELSE "mismatch")

\* A read that stops one byte short.
ReadBytes_OneShort(f, addr, size) == [a \in CellsIn(addr, size - 1) |-> f[a]]

\* A read that copies the first byte of the region into every byte of buf.
ReadBytes_FirstOnly(f, addr, size) == [a \in CellsIn(addr, size) |-> f[LITTLE_FS_STARTIN_ADDRESS]]

\* The bytes the loop of read copies into buf, by address.
ReadBytes(f, addr, size) == [a \in CellsIn(addr, size) |-> f[a]]

\* A read that counts itself before it validates its arguments.
FAL_read_CountsFirst(offset, nullbuf, size) ==
  LET addr == AddrAdd(LITTLE_FS_STARTIN_ADDRESS, offset) IN
  /\ Running
  /\ UNCHANGED <<flash, locked, on_ic_write_cnt>>
  /\ on_ic_read_cnt' = on_ic_read_cnt + 1
  /\ IF FAL_read_InvalidArg(nullbuf, size) \/ FAL_read_InvalidRange(offset, size)
     THEN /\ ef_err_port_cnt' = ef_err_port_cnt + 1
          /\ last' = Call("read", offset, size, <<>>, nullbuf, -1, TRUE, <<>>, <<>>, "rejected")
     ELSE IF RunsPastFlash(addr, size)
     THEN /\ ef_err_port_cnt' = ef_err_port_cnt
          /\ last' = Call("read", offset, size, <<>>, nullbuf, 0, FALSE, ReadBytes(flash, addr, size), <<>>, "fault")
     ELSE /\ ef_err_port_cnt' = ef_err_port_cnt
          /\ last' = Call("read", offset, size, <<>>, nullbuf, size, TRUE, ReadBytes(flash, addr, size), <<>>, "ok")

\* STM32F4FlashAbstractionLayer::read.
FAL_read(offset, nullbuf, size) ==
  LET addr == AddrAdd(LITTLE_FS_STARTIN_ADDRESS, offset) IN
  /\ Running
  /\ UNCHANGED <<flash, locked, on_ic_write_cnt>>
  /\ IF FAL_read_InvalidArg(nullbuf, size) \/ FAL_read_InvalidRange(offset, size)
     THEN /\ ef_err_port_cnt' = ef_err_port_cnt + 1
          /\ on_ic_read_cnt' = on_ic_read_cnt
          /\ last' = Call("read", offset, size, <<>>, nullbuf, -1, TRUE, <<>>, <<>>, "rejected")
     ELSE IF RunsPastFlash(addr, size)
     THEN /\ UNCHANGED <<ef_err_port_cnt, on_ic_read_cnt>>
          /\ last' = Call("read", offset, size, <<>>, nullbuf, 0, FALSE, ReadBytes(flash, addr, size), <<>>, "fault")
     ELSE /\ ef_err_port_cnt' = ef_err_port_cnt
          /\ on_ic_read_cnt' = on_ic_read_cnt + 1
          /\ last' = Call("read", offset, size, <<>>, nullbuf, size, TRUE, ReadBytes(flash, addr, size), <<>>, "ok")

\* A sync that counts itself as a write.
FAL_sync_Counts ==
  /\ Running
  /\ UNCHANGED <<flash, locked, ef_err_port_cnt, on_ic_read_cnt>>
  /\ on_ic_write_cnt' = on_ic_write_cnt + 1
  /\ last' = Call("sync", 0, 0, <<>>, FALSE, 0, TRUE, <<>>, <<>>, "ok")

\* STM32F4FlashAbstractionLayer::sync.
FAL_sync ==
  /\ Running
  /\ UNCHANGED <<flash, locked, ef_err_port_cnt, on_ic_write_cnt, on_ic_read_cnt>>
  /\ last' = Call("sync", 0, 0, <<>>, FALSE, 0, TRUE, <<>>, <<>>, "ok")

\* The scan of verify_flash_erased: TRUE iff no byte of [addr, addr + size)
\* differs from 0xFF.
ScanErased(f, addr, size) == \A a \in CellsIn(addr, size) : f[a] = ERASED

\* A verification that clears the error counter when it finds the range
\* erased.
FAL_verify_flash_erased_Clears(addr, size) ==
  /\ Running
  /\ UNCHANGED <<flash, locked, on_ic_write_cnt, on_ic_read_cnt>>
  /\ IF ScanErased(flash, addr, size)
     THEN /\ ef_err_port_cnt' = 0
          /\ last' = Call("verify", addr, size, <<>>, FALSE, 1, TRUE, <<>>, <<>>, "ok")
     ELSE /\ ef_err_port_cnt' = ef_err_port_cnt + 1
          /\ last' = Call("verify", addr, size, <<>>, FALSE, 0, TRUE, <<>>, <<>>, "mismatch")

\* STM32F4FlashAbstractionLayer::verify_flash_erased; offset holds the
\* absolute address addr, ret is 1 for true and 0 for false.
FAL_verify_flash_erased(addr, size) ==
  /\ Running
  /\ UNCHANGED <<flash, locked, on_ic_write_cnt, on_ic_read_cnt>>
  /\ IF ScanErased(flash, addr, size)
     THEN /\ ef_err_port_cnt' = ef_err_port_cnt
          /\ last' = Call("verify", addr, size, <<>>, FALSE, 1, TRUE, <<>>, <<>>, "ok")
     ELSE /\ ef_err_port_cnt' = ef_err_port_cnt + 1
          /\ last' = Call("verify", addr, size, <<>>, FALSE, 0, TRUE, <<>>, <<>>, "mismatch")

(***************************************************************************)
(* The requests followed.                                                  *)
(***************************************************************************)
\* <<offset, size>> inside the region: within sector 6, across the boundary
\* of sectors 6 and 7, within sector 7, the whole region.
ValidRanges == {<<0, 1>>, <<FLASH_SECTOR_SIZE_BYTES - 1, 2>>, <<FLASH_SECTOR_SIZE_BYTES, 1>>,
                <<0, FLASH_TOTAL_SIZE_BYTES>>}

\* <<offset, size>> with offset < 0, offset >= region size, size = 0,
\* offset + size > region size.
InvalidRanges == {<<-1, 1>>, <<FLASH_TOTAL_SIZE_BYTES, 1>>, <<0, 0>>, <<1, FLASH_TOTAL_SIZE_BYTES>>}

\* <<offset, size>> with size = 0xFFFFFFFF: offset + size is past the region
\* and its 32-bit sum is not.
WrapRanges == {<<1, -1>>, <<2, -1>>}

Ranges == ValidRanges \cup InvalidRanges \cup WrapRanges

\* TRUE iff [offset, offset + size) is a non-empty range of the region.
InRegion(offset, size) == offset >= 0 /\ size > 0 /\ offset + size <= FLASH_TOTAL_SIZE_BYTES

\* The source buffers of write.
Bufs == {<<15, 15>>, <<240, 0>>, <<255, 255>>}

WriteRequests == (ValidRanges \X Bufs) \cup ((InvalidRanges \cup WrapRanges) \X {<<240, 0>>})

\* <<range, buf is null>>.
ReadRequests == (Ranges \X {FALSE}) \cup {<<<<0, 1>>, TRUE>>}

\* <<addr, size>> of verify_flash_erased.
VerifyRequests == {<<LITTLE_FS_STARTIN_ADDRESS + r[1], r[2]>> : r \in ValidRanges}
                  \cup {<<LITTLE_FS_STARTIN_ADDRESS, 4096 * 2>>}

\* What the hardware may fail in an erase: nothing, or one sector of the span.
EraseFailures(offset, size) ==
  IF FAL_InvalidRange(offset, size) THEN {{}}
  ELSE LET addr == AddrAdd(LITTLE_FS_STARTIN_ADDRESS, offset) IN
       {{}} \cup {{k} : k \in EraseSpan(FAL_FirstSector(addr), FAL_NbOfSectors(addr, size))}

\* What the hardware may fail in a write: nothing, or the programming of one
\* byte: a sampled one, or the last of the range.
ProgramFailures(offset, size) ==
  IF FAL_InvalidRange(offset, size) THEN {{}}
  ELSE LET addr == AddrAdd(LITTLE_FS_STARTIN_ADDRESS, offset) IN
       {{}} \cup {{a - addr} : a \in CellsIn(addr, size)} \cup (IF size > 0 THEN {{size - 1}} ELSE {})

\* The flash contents a run starts from: erased, all zero, all 0x0F, and one
\* that differs from byte to byte.
InitContents ==
  {[a \in Sampled |-> v] : v \in {255, 0, 15}}
  \cup {[a \in Sampled |-> IF a = LITTLE_FS_STARTIN_ADDRESS THEN 15
                          ELSE IF a = LITTLE_FS_STARTIN_ADDRESS + 4096 THEN 240
                          ELSE IF HwSectorOf(a) = 6 THEN 255 ELSE 0]}

Init ==
  /\ flash \in InitContents
  /\ locked = TRUE
  /\ ef_err_port_cnt = 0
  /\ on_ic_write_cnt = 0
  /\ on_ic_read_cnt = 0
  /\ last = NoCall
  /\ prev = NoCall
  /\ calls = 0
  /\ adapter = NoAdapter

\* One more call, within the budget of calls; prev is not kept here.
Budget == calls < MaxCalls /\ calls' = calls + 1 /\ UNCHANGED <<prev, adapter>>

\* Any MaxCalls calls of the class, with any requests, in any order.
Next ==
  \/ \E r \in Ranges : \E F \in EraseFailures(r[1], r[2]) : Budget /\ FAL_erase(r[1], r[2], F)
  \/ \E w \in WriteRequests : \E h \in ProgramFailures(w[1][1], w[1][2]) : Budget /\ FAL_write(w[1][1], w[2], w[1][2], h)
  \/ \E q \in ReadRequests : Budget /\ FAL_read(q[1][1], q[2], q[1][2])
  \/ Budget /\ FAL_sync
  \/ \E v \in VerifyRequests : Budget /\ FAL_verify_flash_erased(v[1], v[2])

Spec == Init /\ [][Next]_vars

(***************************************************************************)
(* Vocabulary of the claims.                                               *)
(***************************************************************************)
\* The absolute address of the first byte of the last call's range.
AddrOf(c) == LITTLE_FS_STARTIN_ADDRESS + c.offset

\* TRUE iff c is a call of one of the three engine operations of the class.
IsEngineCall(c) == c.op \in {"erase", "write", "read"}

\* offset < 0, size == 0, or offset + size > region size, the sum taken in
\* the integers and size as the unsigned number it is (2^31 or more when
\* its pattern is negative).
InvalidRequest(offset, size) == offset < 0 \/ size = 0 \/ size < 0 \/ offset + size > FLASH_TOTAL_SIZE_BYTES

\* The units the erase contract spans for a request inside the region:
\* from the unit of the first byte to the unit of the last byte.
ContractSpan(offset, size) ==
  {k \in 0..7 : HwSectorOf(LITTLE_FS_STARTIN_ADDRESS + offset) <= k
                /\ k <= HwSectorOf(LITTLE_FS_STARTIN_ADDRESS + offset + size - 1)}

(***************************************************************************)
(* C3.  A write to a range inside the region in which some source byte has *)
(* a 1 bit where the stored byte has a 0 bit returns the error -1 and      *)
(* never its size: programming clears bits only, so the read-back of that  *)
(* byte differs from the source (or the hardware failed before it).        *)
(***************************************************************************)
C3_WriteNeedingSetBitFails ==
  [][(/\ last'.op = "write"
      /\ InRegion(last'.offset, last'.size)
      /\ \E a \in CellsIn(AddrOf(last'), last'.size) : NeedsSetBit(flash[a], BufAt(last'.buf, a - AddrOf(last'))))
     => (last'.returned /\ last'.ret = -1 /\ last'.ret # last'.size /\ on_ic_write_cnt' = on_ic_write_cnt)]_vars

\* A write whose read-back differed from the source.
C3_Witness == last.op = "write" /\ last.path = "mismatch" /\ InRegion(last.offset, last.size)

(***************************************************************************)
(* C4.  read, write and erase called with offset < 0, size == 0 or         *)
(* offset + size > region size, and read called with a null buffer,        *)
(* return a negative value.                                                *)
(***************************************************************************)
C4_InvalidRequestReturnsError ==
  (IsEngineCall(last) /\ (InvalidRequest(last.offset, last.size) \/ (last.op = "read" /\ last.nullbuf)))
  => (last.returned /\ last.ret < 0)

(***************************************************************************)
(* C5.  A read, write or erase that leaves by a failed validation changes  *)
(* the error counter, by one, and nothing else: no flash byte, not the     *)
(* read or write counter, not the lock, and it issues no unlock, erase or  *)
(* program operation.                                                      *)
(***************************************************************************)
C5_RejectedRequestTouchesNothing ==
  [][(IsEngineCall(last') /\ last'.path = "rejected")
     => (/\ flash' = flash
         /\ locked' = locked
         /\ on_ic_read_cnt' = on_ic_read_cnt
         /\ on_ic_write_cnt' = on_ic_write_cnt
         /\ ef_err_port_cnt' = ef_err_port_cnt + 1
         /\ last'.hw = <<>>)]_vars

\* A request has been rejected after another error was counted.
C5_Witness == IsEngineCall(last) /\ last.path = "rejected" /\ ef_err_port_cnt = 2

(***************************************************************************)
(* C8, as claimed.  A byte changes only by being programmed to its source  *)
(* value or by a successful erase: after a step, a byte that differs from  *)
(* before holds the source byte written to it, or 0xFF after an erase that *)
(* succeeded.                                                              *)
(***************************************************************************)
C8_BytesOnlyProgrammedOrErased ==
  [][\A a \in Sampled :
       flash'[a] # flash[a]
       => \/ (last'.op = "write" /\ a \in CellsIn(AddrOf(last'), last'.size)
              /\ flash'[a] = BufAt(last'.buf, a - AddrOf(last')))
          \/ (last'.op = "erase" /\ last'.path = "ok" /\ flash'[a] = ERASED)]_vars

(***************************************************************************)
(* C8, amended.  A call that succeeds changes the flash as its contract    *)
(* describes and not otherwise: read, sync and verify_flash_erased change  *)
(* no byte, whatever they return; a write inside the region that returns   *)
(* size leaves its range equal to the source and every other byte          *)
(* unchanged; an erase inside the region that returns size leaves every    *)
(* byte of the units it spans at 0xFF and every other byte unchanged.      *)
(***************************************************************************)
C8_SuccessfulCallsFollowContract ==
  [][/\ last'.op \in {"read", "sync", "verify"} => flash' = flash
     /\ (last'.op = "write" /\ last'.path = "ok" /\ InRegion(last'.offset, last'.size))
        => \A a \in Sampled :
             flash'[a] = IF a \in CellsIn(AddrOf(last'), last'.size)
                         THEN BufAt(last'.buf, a - AddrOf(last')) ELSE flash[a]
     /\ (last'.op = "erase" /\ last'.path = "ok" /\ InRegion(last'.offset, last'.size))
        => \A a \in Sampled :
             flash'[a] = IF HwSectorOf(a) \in ContractSpan(last'.offset, last'.size)
                         THEN ERASED ELSE flash[a]]_vars

\* A successful erase over both sectors after a successful write.
C8_Witness ==
  /\ last.op = "erase" /\ last.path = "ok" /\ last.size = FLASH_TOTAL_SIZE_BYTES
  /\ on_ic_write_cnt = 1
  /\ \A a \in Sampled : flash[a] = ERASED

(***************************************************************************)
(* The sequences erase, verify_flash_erased and erase, write, read over    *)
(* one range, from any flash contents.                                     *)
(***************************************************************************)
\* Every contents of the sampled bytes: whatever earlier writes and erases
\* left.
AllContents == [Sampled -> ByteVals]

InitSeq ==
  /\ flash \in AllContents
  /\ locked = TRUE
  /\ ef_err_port_cnt = 0
  /\ on_ic_write_cnt = 0
  /\ on_ic_read_cnt = 0
  /\ last = NoCall
  /\ prev = NoCall
  /\ calls = 0
  /\ adapter = NoAdapter

\* The next call of the sequence; prev keeps the call before it.
Then(n) == calls = n /\ calls' = n + 1 /\ prev' = last /\ adapter' = adapter

\* TRUE iff the last call is an erase inside the region that returned size.
ErasedOk == last.op = "erase" /\ last.path = "ok" /\ InRegion(last.offset, last.size)

NextSeq ==
  \/ \E r \in Ranges : \E F \in EraseFailures(r[1], r[2]) : Then(0) /\ FAL_erase(r[1], r[2], F)
  \/ Then(1) /\ ErasedOk /\ FAL_verify_flash_erased(AddrOf(last), last.size)
  \/ \E b \in Bufs : \E h \in ProgramFailures(last.offset, last.size) :
       Then(1) /\ ErasedOk /\ FAL_write(last.offset, b, last.size, h)
  \/ Then(2) /\ last.op = "write" /\ FAL_read(last.offset, FALSE, last.size)

SpecSeq == InitSeq /\ [][NextSeq]_vars

(***************************************************************************)
(* C1.  On a range of the region erased beforehand, write(offset, buf,     *)
(* size) returns size unless the hardware reports a failure, and the       *)
(* read(offset, out, size) that follows a write that returned size returns *)
(* size with out equal to buf, byte for byte.                              *)
(***************************************************************************)
C1_WriteThenReadYieldsBuf ==
  /\ (calls = 2 /\ last.op = "write" /\ last.path # "hal") => (last.returned /\ last.ret = last.size)
  /\ (calls = 3 /\ prev.path = "ok")
     => (/\ last.op = "read" /\ last.returned /\ last.ret = prev.size
         /\ DOMAIN last.out = CellsIn(AddrOf(prev), prev.size)
         /\ \A a \in DOMAIN last.out : last.out[a] = BufAt(prev.buf, a - AddrOf(prev)))

\* The read after a write of two bytes with different values, across the
\* boundary of sectors 6 and 7, has returned.
C1_Witness ==
  /\ calls = 3 /\ last.op = "read" /\ last.path = "ok"
  /\ prev.op = "write" /\ prev.path = "ok" /\ prev.size = 2 /\ prev.buf = <<240, 0>>
  /\ Cardinality(DOMAIN last.out) = 2

(***************************************************************************)
(* C2.  After an erase(offset, size) inside the region that returned size, *)
(* verify_flash_erased(region start + offset, size) returns true, whatever *)
(* the flash held before.                                                  *)
(***************************************************************************)
C2_EraseThenVerifyErased ==
  (calls = 2 /\ last.op = "verify") => (last.ret = 1 /\ ef_err_port_cnt = 0)

\* The verification after an erase of the whole region has returned.
C2_Witness ==
  /\ calls = 2 /\ last.op = "verify" /\ last.size = FLASH_TOTAL_SIZE_BYTES
  /\ prev.op = "erase" /\ prev.ret = prev.size

(***************************************************************************)
(* main.cpp: the flash functions read, write and erase, which validate     *)
(* nothing, and the block-device functions LittleFS calls through cfg.     *)
(***************************************************************************)
\* static int read(long offset, uint8_t *buf, size_t size).
main_read(offset, size) ==
  LET addr == AddrAdd(LITTLE_FS_STARTIN_ADDRESS, offset) IN
  /\ Running
  /\ UNCHANGED <<flash, locked, on_ic_write_cnt, ef_err_port_cnt>>
  /\ IF size # 0 /\ RunsPastFlash(addr, size)
     THEN /\ on_ic_read_cnt' = on_ic_read_cnt
          /\ last' = Call("read", offset, size, <<>>, FALSE, 0, FALSE, ReadBytes(flash, addr, size), <<>>, "fault")
     ELSE /\ on_ic_read_cnt' = on_ic_read_cnt + 1
          /\ last' = Call("read", offset, size, <<>>, FALSE, size, TRUE, ReadBytes(flash, addr, size), <<>>, "ok")

\* static int write(long offset, const uint8_t *buf, size_t size).
main_write(offset, buf, size, halFail) ==
  LET addr == AddrAdd(LITTLE_FS_STARTIN_ADDRESS, offset)
      r == WriteBytes(flash, addr, buf, size, halFail)
  IN /\ Running
     /\ UNCHANGED <<on_ic_read_cnt>>
     /\ flash' = r.flash
     /\ CASE r.status = "done" ->
               /\ locked' = TRUE
               /\ on_ic_write_cnt' = on_ic_write_cnt + 1
               /\ ef_err_port_cnt' = ef_err_port_cnt
               /\ last' = Call("write", offset, size, buf, FALSE, size, TRUE, <<>>,
                               <<<<"Unlock">>>> \o r.hw \o <<<<"Lock">>>>, "ok")
          [] r.status = "fault" ->
               /\ locked' = FALSE
               /\ UNCHANGED <<on_ic_write_cnt, ef_err_port_cnt>>
               /\ last' = Call("write", offset, size, buf, FALSE, 0, FALSE, <<>>,
                               <<<<"Unlock">>>> \o r.hw, "fault")
          [] OTHER ->
               /\ locked' = TRUE
               /\ on_ic_write_cnt' = on_ic_write_cnt
               /\ ef_err_port_cnt' = ef_err_port_cnt + 1
               /\ last' = Call("write", offset, size, buf, FALSE, -1, TRUE, <<>>,
                               <<<<"Unlock">>>> \o r.hw \o <<<<"Lock">>>>,
                               IF r.status = "failed" THEN "hal" ELSE "mismatch")

\* A count that takes every request for one of a single sector.
main_NbOfSectors_One(addr, size) == 1

\* NbOfSectors = stm32_get_sector(addr + size - 1) - FirstSector + 1 of the
\* erase of main.cpp, in 32 bits.
main_NbOfSectors(addr, size) ==
  AddrAdd(AddrAdd(stm32_get_sector(AddrAdd(AddrAdd(addr, size), -1)), -stm32_get_sector(addr)), 1)

\* static int erase(long offset, size_t size).
main_erase(offset, size, F) ==
  LET addr == AddrAdd(LITTLE_FS_STARTIN_ADDRESS, offset)
      FirstSector == stm32_get_sector(addr)
      NbOfSectors == main_NbOfSectors(addr, size)
      r == HAL_FLASHEx_Erase(flash, FirstSector, NbOfSectors, F)
      hw == <<<<"Unlock">>, <<"Erase", FirstSector, NbOfSectors>>, <<"Lock">>>>
  IN /\ Running
     /\ UNCHANGED <<on_ic_write_cnt, on_ic_read_cnt>>
     /\ flash' = r.flash
     /\ locked' = TRUE
     /\ IF r.ok
        THEN /\ ef_err_port_cnt' = ef_err_port_cnt
             /\ last' = Call("erase", offset, size, <<>>, FALSE, size, TRUE, <<>>, hw, "ok")
        ELSE /\ ef_err_port_cnt' = ef_err_port_cnt + 1
             /\ last' = Call("erase", offset, size, <<>>, FALSE, -1, TRUE, <<>>, hw, "hal")

\* const struct lfs_config cfg of main.cpp.
cfg == [read_size |-> 16, prog_size |-> 1, block_size |-> 4096, block_count |-> 32]

\* The configuration over the whole region in blocks of BLOCK_SIZE_BYTES.
region_cfg == [read_size |-> 16, prog_size |-> 1, block_size |-> BLOCK_SIZE_BYTES,
               block_count |-> FLASH_TOTAL_SIZE_BYTES \div BLOCK_SIZE_BYTES]

\* An offset that leaves the intra-block offset out.
lfs_offset_BlockOnly(c, block, off) == S32(U32(block * c.block_size))

\* long offset = (block * c->block_size) + off, in 32 bits.
lfs_offset(c, block, off) == S32(U32(block * c.block_size + off))

\* return (result == size) ? 0 : -1, with what the flash function was given
\* and what it returned (inner).
lfs_status(op, c, block, off, size, inner) ==
  [op |-> op, block_size |-> c.block_size, block |-> block, off |-> off, size |-> size,
   offset |-> inner.offset, result |-> inner.ret, returned |-> inner.returned,
   ret |-> IF inner.ret = size THEN 0 ELSE -1]

\* int read(const struct lfs_config *c, lfs_block_t block, lfs_off_t off,
\* void *buffer, lfs_size_t size).
lfs_read(c, block, off, size) ==
  /\ main_read(lfs_offset(c, block, off), size)
  /\ adapter' = lfs_status("read", c, block, off, size, last')

\* int write(const struct lfs_config *c, lfs_block_t block, lfs_off_t off,
\* const void *buffer, lfs_size_t size).
lfs_write(c, block, off, buf, size, halFail) ==
  /\ main_write(lfs_offset(c, block, off), buf, size, halFail)
  /\ adapter' = lfs_status("write", c, block, off, size, last')

\* int erase(const struct lfs_config *c, lfs_block_t block).
lfs_erase(c, block, F) ==
  /\ main_erase(lfs_offset(c, block, 0), c.block_size, F)
  /\ adapter' = lfs_status("erase", c, block, 0, c.block_size, last')

\* int sync(const struct lfs_config *c).
lfs_sync(c) ==
  /\ Running
  /\ UNCHANGED <<flash, locked, ef_err_port_cnt, on_ic_write_cnt, on_ic_read_cnt>>
  /\ last' = Call("sync", 0, 0, <<>>, FALSE, 0, TRUE, <<>>, <<>>, "ok")
  /\ adapter' = [NoAdapter EXCEPT !.op = "sync", !.block_size = c.block_size]

(***************************************************************************)
(* Any calls of the block-device functions, as LittleFS makes them: a      *)
(* block of the configuration and a range inside the block.                *)
(***************************************************************************)
\* <<c, block, off, size>> of read and write.
AdapterRequests ==
  {<<cfg, 0, 0, 4096>>, <<cfg, 1, 0, 1>>, <<cfg, 31, 4095, 1>>,
   <<region_cfg, 0, 0, 1024>>, <<region_cfg, 127, 1023, 1>>, <<region_cfg, 128, 0, 1024>>}

\* <<c, block>> of erase.
AdapterBlocks ==
  {<<cfg, 0>>, <<cfg, 1>>, <<cfg, 31>>,
   <<region_cfg, 0>>, <<region_cfg, 127>>, <<region_cfg, 128>>, <<region_cfg, 255>>}

\* What the hardware may fail in an erase of main.cpp: nothing, or one
\* sector of the span.
main_EraseFailures(offset, size) ==
  LET addr == AddrAdd(LITTLE_FS_STARTIN_ADDRESS, offset) IN
  {{}} \cup {{k} : k \in EraseSpan(stm32_get_sector(addr), main_NbOfSectors(addr, size))}

\* What the hardware may fail in a write of main.cpp: nothing, or the
\* programming of one byte: a sampled one, or the last of the range.
main_ProgramFailures(offset, size) ==
  LET addr == AddrAdd(LITTLE_FS_STARTIN_ADDRESS, offset) IN
  {{}} \cup {{a - addr} : a \in CellsIn(addr, size)} \cup (IF size > 0 THEN {{size - 1}} ELSE {})

\* One more call, within the budget of calls; prev is not kept here.
AdapterBudget == calls < MaxCalls /\ calls' = calls + 1 /\ prev' = prev

NextMain ==
  \/ \E q \in AdapterRequests : AdapterBudget /\ lfs_read(q[1], q[2], q[3], q[4])
  \/ \E q \in AdapterRequests : \E b \in Bufs :
       \E h \in main_ProgramFailures(lfs_offset(q[1], q[2], q[3]), q[4]) :
         AdapterBudget /\ lfs_write(q[1], q[2], q[3], b, q[4], h)
  \/ \E e \in AdapterBlocks : \E F \in main_EraseFailures(lfs_offset(e[1], e[2], 0), e[1].block_size) :
       AdapterBudget /\ lfs_erase(e[1], e[2], F)
  \/ \E c \in {cfg, region_cfg} : AdapterBudget /\ lfs_sync(c)

SpecMain == Init /\ [][NextMain]_vars

\* TRUE iff the last block-device call is a read, a write or an erase.
IsAdapterCall == adapter.op \in {"read", "write", "erase"}

(***************************************************************************)
(* C6.  The block-device read, write and erase pass the flash function of  *)
(* the same name the offset block * block_size + off, and return 0 if and  *)
(* only if the flash function returned the requested size; they return -1  *)
(* otherwise, so whenever the flash function reported an error.            *)
(***************************************************************************)
C6_AdapterOffsetAndStatus ==
  IsAdapterCall =>
    /\ last.op = adapter.op /\ last.size = adapter.size
    /\ last.offset = adapter.block * adapter.block_size + adapter.off
    /\ adapter.ret \in {0, -1}
    /\ adapter.ret = 0 <=> (last.path = "ok" /\ last.ret = adapter.size)
    /\ last.path \in {"hal", "mismatch"} => (last.ret < 0 /\ adapter.ret = -1)

\* A write at the last byte of block 31 of cfg has failed verification and
\* the block-device write has returned -1.
C6_Witness ==
  /\ adapter.op = "write" /\ adapter.block = 31 /\ adapter.off = 4095
  /\ last.path = "mismatch" /\ adapter.ret = -1

\* TRUE iff address a lies in block b of a configuration of block size bs.
InBlock(a, b, bs) ==
  LITTLE_FS_STARTIN_ADDRESS + b * bs <= a /\ a < LITTLE_FS_STARTIN_ADDRESS + (b + 1) * bs

(***************************************************************************)
(* C9.  A block-device erase(block) that returns 0 sets every byte of that *)
(* block to 0xFF and changes no byte of any other block: a block is a      *)
(* whole number of erase units.                                            *)
(***************************************************************************)
C9_EraseAffectsExactlyItsBlock ==
  [][(calls' # calls /\ adapter'.op = "erase" /\ adapter'.ret = 0)
     => \A a \in Sampled :
          flash'[a] = IF InBlock(a, adapter'.block, adapter'.block_size) THEN ERASED ELSE flash[a]]_vars

(***************************************************************************)
(* The scenario over the region in 256 blocks of 1 KiB: erase(block),      *)
(* then write(block, 0, pattern, block_size), then read(block, 0,          *)
(* block_size), each made once the call before it has returned 0.  The     *)
(* counters are the zero-initialised globals of main.cpp.                  *)
(***************************************************************************)
\* The blocks that hold a sampled byte, block 6, and the first and last
\* block of each sector.
ScenarioBlocks == {0, 4, 6, 127, 128, 255}

\* The next call of the scenario; prev keeps the flash call before it.
ThenAdapter(n) == calls = n /\ calls' = n + 1 /\ prev' = last

NextScenario ==
  \/ \E b \in ScenarioBlocks : \E F \in main_EraseFailures(lfs_offset(region_cfg, b, 0), region_cfg.block_size) :
       ThenAdapter(0) /\ lfs_erase(region_cfg, b, F)
  \/ \E pattern \in Bufs :
       \E h \in main_ProgramFailures(lfs_offset(region_cfg, adapter.block, 0), region_cfg.block_size) :
         /\ ThenAdapter(1) /\ adapter.ret = 0
         /\ lfs_write(region_cfg, adapter.block, 0, pattern, region_cfg.block_size, h)
  \/ /\ ThenAdapter(2) /\ adapter.ret = 0
     /\ lfs_read(region_cfg, adapter.block, 0, region_cfg.block_size)

SpecScenario == InitSeq /\ [][NextScenario]_vars

(***************************************************************************)
(* C7.  In the scenario, for each block b: after an erase(b) that returned *)
(* 0 the write of the pattern returns 0 unless the hardware reports a      *)
(* failure, and after a write that returned 0 the read returns 0 with      *)
(* every byte of the block equal to the pattern; over the three calls the  *)
(* read counter and the write counter have each gone from 0 to 1, and no   *)
(* error is counted.                                                       *)
(***************************************************************************)
C7_ScenarioReturnsPattern ==
  /\ (calls = 2 /\ last.path # "hal") => (adapter.ret = 0 /\ on_ic_write_cnt = 1)
  /\ calls = 3
     => /\ adapter.op = "read" /\ adapter.ret = 0
        /\ last.offset = adapter.block * BLOCK_SIZE_BYTES /\ last.size = BLOCK_SIZE_BYTES
        /\ DOMAIN last.out = {a \in Sampled : InBlock(a, adapter.block, BLOCK_SIZE_BYTES)}
        /\ \A a \in DOMAIN last.out : last.out[a] = BufAt(prev.buf, a - AddrOf(prev))
        /\ on_ic_read_cnt = 1 /\ on_ic_write_cnt = 1 /\ ef_err_port_cnt = 0

\* The read of block 127, whose last byte is the last of sector 6, has
\* returned the pattern 0xF0, 0x00 written over flash that held neither.
C7_Witness ==
  /\ calls = 3 /\ adapter.op = "read" /\ adapter.block = 127 /\ adapter.ret = 0
  /\ prev.op = "write" /\ prev.buf = <<240, 0>>
  /\ last.out = (LITTLE_FS_STARTIN_ADDRESS + FLASH_SECTOR_SIZE_BYTES - 1 :> 0)

(***************************************************************************)
(* The two sector lookups, applied to addresses of the flash.              *)
(***************************************************************************)
\* The first and the last address of every sector, the address below the
\* flash and the one above it, the middle of sector 5, and every 1 KiB of
\* sector 4.
GeometryAddrs ==
  {SectorBase[k] + d : k \in 1..9, d \in {-1, 0}}
  \cup {ADDR_FLASH_SECTOR_0 + 192 * 1024}
  \cup {ADDR_FLASH_SECTOR_4 + k * BLOCK_SIZE_BYTES + d :
          k \in 0..((ADDR_FLASH_SECTOR_5 - ADDR_FLASH_SECTOR_4) \div BLOCK_SIZE_BYTES - 1), d \in {0, 1}}

\* A lookup of address addr is pending.
Lookup(addr) == Call("lookup", addr, 0, <<>>, FALSE, 0, TRUE, <<>>, <<>>, "none")

InitGeometry ==
  /\ flash = [a \in Sampled |-> ERASED]
  /\ locked = TRUE
  /\ ef_err_port_cnt = 0
  /\ on_ic_write_cnt = 0
  /\ on_ic_read_cnt = 0
  /\ last \in {Lookup(a) : a \in GeometryAddrs}
  /\ prev = NoCall
  /\ calls = 0
  /\ adapter = NoAdapter

\* The lookup returns: ret holds the sector, op the function that ran.
Returns(fn, sector) ==
  /\ last' = [last EXCEPT !.op = fn, !.ret = sector, !.path = "ok"]
  /\ UNCHANGED <<flash, locked, ef_err_port_cnt, on_ic_write_cnt, on_ic_read_cnt>>

NextGeometry ==
  \/ Then(0) /\ Returns("getSectorFromOffset", getSectorFromOffset(last.offset))
  \/ Then(0) /\ Returns("stm32_get_sector", stm32_get_sector(last.offset))

SpecGeometry == InitGeometry /\ [][NextGeometry]_vars

\* TRUE iff one of the two lookups has returned.
LookedUp == last.op \in {"getSectorFromOffset", "stm32_get_sector"}

(***************************************************************************)
(* C10.  With the sectors of 16, 16, 16, 16, 64, 128, 128 and 128 KiB from *)
(* the flash base, getSectorFromOffset and stm32_get_sector return sector  *)
(* 4 for every address in [base + 64 KiB, base + 128 KiB).                 *)
(***************************************************************************)
C10_Sector4ForSecond64K ==
  (/\ LookedUp
   /\ ADDR_FLASH_SECTOR_0 + 64 * 1024 <= last.offset
   /\ last.offset < ADDR_FLASH_SECTOR_0 + 128 * 1024)
  => last.ret = 4

\* The first or the last address of the range has been looked up.
C10_Witness ==
  /\ LookedUp /\ last.ret = 4
  /\ last.offset \in {ADDR_FLASH_SECTOR_0 + 64 * 1024, ADDR_FLASH_SECTOR_0 + 128 * 1024 - 1}

(***************************************************************************)
(* C11, as claimed.  With the same sectors, the lookups return sector 6    *)
(* for the address 192 KiB above the flash base and sector 7 for the       *)
(* address 256 KiB - 1 above it.                                           *)
(***************************************************************************)
C11_Sector6At192K_Sector7At256KMinus1 ==
  LookedUp =>
    /\ last.offset = ADDR_FLASH_SECTOR_0 + 192 * 1024 => last.ret = 6
    /\ last.offset = ADDR_FLASH_SECTOR_0 + 256 * 1024 - 1 => last.ret = 7

(***************************************************************************)
(* C11, amended.  Sector 5 covers [base + 128 KiB, base + 256 KiB): the    *)
(* lookups return sector 5 for the address 192 KiB above the flash base    *)
(* and for the address 256 KiB - 1 above it; sector 6 starts at 256 KiB    *)
(* and sector 7 at 384 KiB.                                                *)
(***************************************************************************)
C11_Sector5At192K_And256KMinus1 ==
  LookedUp =>
    /\ last.offset = ADDR_FLASH_SECTOR_0 + 192 * 1024 => last.ret = 5
    /\ last.offset = ADDR_FLASH_SECTOR_0 + 256 * 1024 - 1 => last.ret = 5
    /\ last.offset = ADDR_FLASH_SECTOR_0 + 256 * 1024 => last.ret = 6
    /\ last.offset = ADDR_FLASH_SECTOR_0 + 384 * 1024 => last.ret = 7

\* The address 192 KiB above the flash base has been looked up by
\* getSectorFromOffset.
C11_Witness ==
  last.op = "getSectorFromOffset" /\ last.offset = ADDR_FLASH_SECTOR_0 + 192 * 1024 /\ last.ret = 5

(***************************************************************************)
(* main.cpp: verify_flash_erased and erase_littlefs_region, and the calls  *)
(* the firmware makes: those of LittleFS through cfg and these two.        *)
(***************************************************************************)
\* bool verify_flash_erased(uint32_t addr, size_t size) of main.cpp: it
\* counts nothing.
main_verify_flash_erased(addr, size) ==
  /\ Running
  /\ UNCHANGED <<flash, locked, ef_err_port_cnt, on_ic_write_cnt, on_ic_read_cnt>>
  /\ last' = IF ScanErased(flash, addr, size)
             THEN Call("verify", addr, size, <<>>, FALSE, 1, TRUE, <<>>, <<>>, "ok")
             ELSE Call("verify", addr, size, <<>>, FALSE, 0, TRUE, <<>>, <<>>, "mismatch")

\* void erase_littlefs_region(): sectors 6 and 7 in one transaction, then a
\* scan of the first 4096 * 2 bytes; F is the set of sectors whose erasure
\* the hardware fails.
erase_littlefs_region(F) ==
  LET r == HAL_FLASHEx_Erase(flash, FLASH_SECTOR_6, 2, F)
      hw == <<<<"Unlock">>, <<"Erase", FLASH_SECTOR_6, 2>>, <<"Lock">>>>
      path == IF ~r.ok THEN "hal"
              ELSE IF ScanErased(r.flash, LITTLE_FS_STARTIN_ADDRESS, 4096 * 2) THEN "ok" ELSE "mismatch"
  IN /\ Running
     /\ UNCHANGED <<on_ic_write_cnt, on_ic_read_cnt>>
     /\ flash' = r.flash
     /\ locked' = TRUE
     /\ ef_err_port_cnt' = IF path = "ok" THEN ef_err_port_cnt ELSE ef_err_port_cnt + 1
     /\ last' = Call("erase_littlefs_region", 0, 0, <<>>, FALSE, 0, TRUE, <<>>, hw, path)

\* One more call that is not made through cfg.
DirectBudget == AdapterBudget /\ adapter' = adapter

NextFirmware ==
  \/ NextMain
  \/ \E v \in VerifyRequests : DirectBudget /\ main_verify_flash_erased(v[1], v[2])
  \/ \E F \in {{}, {FLASH_SECTOR_6}, {FLASH_SECTOR_7}} : DirectBudget /\ erase_littlefs_region(F)

SpecFirmware == Init /\ [][NextFirmware]_vars

\* TRUE iff call c of erase, write, read or verify_flash_erased ended in an
\* error: a failed validation, a hardware failure, a read-back that
\* differed, or a byte that is not 0xFF.
EndedInError(c) ==
  c.op \in {"erase", "write", "read", "verify"} /\ c.path \in {"rejected", "hal", "mismatch"}

(***************************************************************************)
(* C12.  Every call of erase, write, read or verify_flash_erased that ends *)
(* in an error increments ef_err_port_cnt, in main.cpp as in the class.    *)
(***************************************************************************)
C12_EveryErrorIsCounted ==
  [][(calls' # calls /\ EndedInError(last'))
     => ef_err_port_cnt' = ef_err_port_cnt + 1]_vars

(***************************************************************************)
(* The two variants side by side: from any flash contents, one call of a   *)
(* method of the class or of a function of main.cpp, and a sync of either  *)
(* variant as the first call or after it.                                  *)
(***************************************************************************)
\* The first call; prev keeps the state of last before it.
First == calls = 0 /\ calls' = 1 /\ prev' = last

\* A sync, first or after the first call.
FirstOrSecond == calls \in {0, 1} /\ calls' = calls + 1 /\ prev' = last

NextVariants ==
  \/ \E r \in Ranges : \E F \in EraseFailures(r[1], r[2]) :
       First /\ adapter' = adapter /\ FAL_erase(r[1], r[2], F)
  \/ \E w \in WriteRequests : \E h \in ProgramFailures(w[1][1], w[1][2]) :
       First /\ adapter' = adapter /\ FAL_write(w[1][1], w[2], w[1][2], h)
  \/ \E q \in ReadRequests : First /\ adapter' = adapter /\ FAL_read(q[1][1], q[2], q[1][2])
  \/ \E v \in VerifyRequests : First /\ adapter' = adapter /\ FAL_verify_flash_erased(v[1], v[2])
  \/ FirstOrSecond /\ adapter' = adapter /\ FAL_sync
  \/ \E q \in AdapterRequests : First /\ lfs_read(q[1], q[2], q[3], q[4])
  \/ \E q \in AdapterRequests : \E b \in Bufs :
       \E h \in main_ProgramFailures(lfs_offset(q[1], q[2], q[3]), q[4]) :
         First /\ lfs_write(q[1], q[2], q[3], b, q[4], h)
  \/ \E e \in AdapterBlocks : \E F \in main_EraseFailures(lfs_offset(e[1], e[2], 0), e[1].block_size) :
       First /\ lfs_erase(e[1], e[2], F)
  \/ \E v \in VerifyRequests : First /\ adapter' = adapter /\ main_verify_flash_erased(v[1], v[2])
  \/ \E F \in {{}, {FLASH_SECTOR_6}, {FLASH_SECTOR_7}} : First /\ adapter' = adapter /\ erase_littlefs_region(F)
  \/ \E c \in {cfg, region_cfg} : FirstOrSecond /\ lfs_sync(c)

SpecVariants == InitSeq /\ [][NextVariants]_vars

(***************************************************************************)
(* C13.  A write of either variant that returns its size has incremented   *)
(* on_ic_write_cnt by one, however many bytes it programmed; a write that  *)
(* returns an error, or does not return, has left it unchanged.            *)
(***************************************************************************)
C13_WriteCountedOncePerSuccess ==
  [][(calls' # calls /\ last'.op = "write")
     => on_ic_write_cnt' = IF last'.path = "ok" THEN on_ic_write_cnt + 1 ELSE on_ic_write_cnt]_vars

\* A write of the whole region by the class has returned its size, counted
\* once.
C13_Witness ==
  /\ last.op = "write" /\ last.path = "ok" /\ last.size = FLASH_TOTAL_SIZE_BYTES
  /\ Len(last.hw) > 3 /\ on_ic_write_cnt = 1

(***************************************************************************)
(* C14.  A read of the class that returns its size has copied the size     *)
(* bytes from LITTLE_FS_STARTIN_ADDRESS + offset on, each as it is stored, *)
(* and has incremented on_ic_read_cnt by one; it changes no flash byte,    *)
(* not the write counter, not the error counter, not the lock, and issues  *)
(* no unlock or other hardware operation.                                  *)
(***************************************************************************)
C14_ReadCopiesAndCountsOnly ==
  [][(calls' # calls /\ last'.op = "read" /\ last'.path = "ok")
     => (/\ last'.ret = last'.size /\ InRegion(last'.offset, last'.size)
         /\ DOMAIN last'.out = CellsIn(LITTLE_FS_STARTIN_ADDRESS + last'.offset, last'.size)
         /\ \A a \in DOMAIN last'.out : last'.out[a] = flash[a]
         /\ on_ic_read_cnt' = on_ic_read_cnt + 1
         /\ flash' = flash
         /\ on_ic_write_cnt' = on_ic_write_cnt
         /\ ef_err_port_cnt' = ef_err_port_cnt
         /\ locked' = locked
         /\ last'.hw = <<>>)]_vars

\* A read of the last byte of sector 6 and the first of sector 7, which
\* differ, has returned 2.
C14_Witness ==
  /\ last.op = "read" /\ last.path = "ok" /\ last.ret = 2
  /\ Cardinality(DOMAIN last.out) = 2
  /\ \E a, b \in DOMAIN last.out : last.out[a] # last.out[b]

(***************************************************************************)
(* C15.  ef_err_port_cnt, on_ic_write_cnt and on_ic_read_cnt start at zero *)
(* and no call of the class decreases or resets one: each call leaves each *)
(* counter as it is or increments it by one.                               *)
(***************************************************************************)
C15_CountersStartAtZeroAndOnlyIncrement ==
  /\ ef_err_port_cnt = 0 /\ on_ic_write_cnt = 0 /\ on_ic_read_cnt = 0
  /\ [][/\ ef_err_port_cnt' \in {ef_err_port_cnt, ef_err_port_cnt + 1}
        /\ on_ic_write_cnt' \in {on_ic_write_cnt, on_ic_write_cnt + 1}
        /\ on_ic_read_cnt' \in {on_ic_read_cnt, on_ic_read_cnt + 1}]_vars

\* An erased range has been verified after an error was counted, and the
\* count is kept.
C15_Witness ==
  last.op = "verify" /\ last.ret = 1 /\ ef_err_port_cnt = 1

(***************************************************************************)
(* Two calls of erase and write of the class, one after the other, to      *)
(* compare what they return.                                               *)
(***************************************************************************)
NextPairs ==
  \/ \E r \in Ranges : \E F \in EraseFailures(r[1], r[2]) :
       FirstOrSecond /\ adapter' = adapter /\ FAL_erase(r[1], r[2], F)
  \/ \E w \in WriteRequests : \E h \in ProgramFailures(w[1][1], w[1][2]) :
       FirstOrSecond /\ adapter' = adapter /\ FAL_write(w[1][1], w[2], w[1][2], h)

SpecPairs == Init /\ [][NextPairs]_vars

\* TRUE iff the result of call c must differ from that of call d: both are
\* calls of the same operation, and one is a hardware failure while the
\* other is a failed validation or a failed read-back.
MustDiffer(c, d) ==
  /\ c.op = d.op /\ c.op \in {"erase", "write"}
  /\ c.path = "hal" /\ d.path \in {"rejected", "mismatch"}

(***************************************************************************)
(* C16.  What write returns after a failure of HAL_FLASH_Program differs   *)
(* from what it returns after a read-back mismatch, and what erase and     *)
(* write return for a request that fails validation differs from what they *)
(* return after a hardware failure.                                        *)
(***************************************************************************)
C16_ErrorKindsHaveDistinctResults ==
  (calls = 2 /\ (MustDiffer(prev, last) \/ MustDiffer(last, prev))) => prev.ret # last.ret

(***************************************************************************)
(* C17.  sync, of the class and of main.cpp, returns 0 in every state and  *)
(* changes nothing: no flash byte, not the lock, none of the three         *)
(* counters, and it issues no hardware operation.                          *)
(***************************************************************************)
C17_SyncIsNoOp ==
  [][(calls' # calls /\ last'.op = "sync")
     => (/\ last'.returned /\ last'.ret = 0 /\ last'.hw = <<>>
         /\ adapter'.op = "sync" => adapter'.ret = 0
         /\ flash' = flash
         /\ locked' = locked
         /\ ef_err_port_cnt' = ef_err_port_cnt
         /\ on_ic_write_cnt' = on_ic_write_cnt
         /\ on_ic_read_cnt' = on_ic_read_cnt)]_vars

\* A sync of the class has returned after a write that failed.
C17_Witness ==
  /\ last.op = "sync" /\ adapter.op # "sync"
  /\ prev.op = "write" /\ prev.path = "mismatch" /\ ef_err_port_cnt = 1

\* The sectors from that of the first byte to that of the last byte of a
\* request inside the region.
FirstUnit(c) == HwSectorOf(LITTLE_FS_STARTIN_ADDRESS + c.offset)
LastUnit(c) == HwSectorOf(LITTLE_FS_STARTIN_ADDRESS + c.offset + c.size - 1)

(***************************************************************************)
(* C18.  An erase(offset, size) of the class inside the region passes the  *)
(* validation and issues one erase transaction, from the sector of the     *)
(* first byte to the sector of the last byte; no byte of a sector outside  *)
(* that span changes, and when the hardware succeeds every byte of every   *)
(* sector of the span is 0xFF and the call returns size.                   *)
(***************************************************************************)
C18_EraseSpansFirstToLastUnit ==
  [][(calls' # calls /\ last'.op = "erase" /\ InRegion(last'.offset, last'.size))
     => (/\ last'.path \in {"ok", "hal"}
         /\ Cardinality(HwOps(last'.hw, "Erase")) = 1
         /\ \A i \in HwOps(last'.hw, "Erase") :
              last'.hw[i] = <<"Erase", FirstUnit(last'), LastUnit(last') - FirstUnit(last') + 1>>
         /\ \A a \in Sampled : HwSectorOf(a) \notin FirstUnit(last')..LastUnit(last') => flash'[a] = flash[a]
         /\ last'.path = "ok"
            => (/\ last'.ret = last'.size
                /\ \A a \in Sampled : HwSectorOf(a) \in FirstUnit(last')..LastUnit(last') => flash'[a] = ERASED))]_vars

\* An erase of the last byte of sector 6 and the first of sector 7 has
\* erased both sectors in one transaction and returned 2.
C18_Witness ==
  /\ last.op = "erase" /\ last.path = "ok" /\ last.ret = 2
  /\ last.hw = <<<<"Unlock">>, <<"Erase", 6, 2>>, <<"Lock">>>>
  /\ \A a \in Sampled : flash[a] = ERASED
  /\ calls = 1

(***************************************************************************)
(* C19.  Every erase of the class that passes the validation erases inside *)
(* sectors 6 and 7: its transaction starts at sector 6 or 7, counts 1 or 2 *)
(* sectors, ends at sector 7 at most, and erases none of sectors 0 to 5.   *)
(***************************************************************************)
C19_EraseStaysInSectors6And7 ==
  [][(calls' # calls /\ last'.op = "erase" /\ last'.path # "rejected")
     => \A i \in HwOps(last'.hw, "Erase") :
          LET Sector == last'.hw[i][2]
              NbSectors == last'.hw[i][3]
          IN /\ Sector >= FLASH_SECTOR_6
             /\ NbSectors \in {1, 2}
             /\ Sector + NbSectors - 1 <= FLASH_SECTOR_7
             /\ EraseSpan(Sector, NbSectors) \subseteq {FLASH_SECTOR_6, FLASH_SECTOR_7}]_vars

\* TRUE iff offset plus the unsigned 32-bit size, added as integers without
\* wraparound, exceeds the size of the region.
SumExceedsRegion(offset, size) == size < 0 \/ offset + size > FLASH_TOTAL_SIZE_BYTES

(***************************************************************************)
(* C20.  read, write and erase of the class reject every request whose     *)
(* offset + size, as integers, exceeds the size of the region, also when   *)
(* the sum computed in 32 bits wraps to a value within the region.         *)
(***************************************************************************)
C20_ValidationNotDefeatedByWraparound ==
  (IsEngineCall(last) /\ SumExceedsRegion(last.offset, last.size)) => last.path = "rejected"

(***************************************************************************)
(* Two calls, one after the other, of erase, write and read of the class:  *)
(* the second starts from the flash contents, the lock and the counters    *)
(* the first one left.                                                     *)
(***************************************************************************)
NextEngine ==
  \/ \E r \in Ranges : \E F \in EraseFailures(r[1], r[2]) :
       FirstOrSecond /\ adapter' = adapter /\ FAL_erase(r[1], r[2], F)
  \/ \E w \in WriteRequests : \E h \in ProgramFailures(w[1][1], w[1][2]) :
       FirstOrSecond /\ adapter' = adapter /\ FAL_write(w[1][1], w[2], w[1][2], h)
  \/ \E q \in ReadRequests : FirstOrSecond /\ adapter' = adapter /\ FAL_read(q[1][1], q[2], q[1][2])

SpecEngine == Init /\ [][NextEngine]_vars

\* TRUE iff e is a call of HAL_FLASH_Program in the log of a call.
IsProgram(e) == e[1] = "Program"

\* The calls of HAL_FLASH_Program a write made, in the order it made them.
Programs(c) == SelectSeq(c.hw, IsProgram)

\* TRUE iff write c left by one of the two returns inside its loop.
Aborted(c) == c.op = "write" /\ c.path \in {"hal", "mismatch"}

\* The index i of the loop at which write c aborted: that of its last call
\* of HAL_FLASH_Program.
AbortIndex(c) == Programs(c)[Len(Programs(c))][2] - AddrOf(c)

(***************************************************************************)
(* C21.  When a write of the class aborts at index k, on a failure of      *)
(* HAL_FLASH_Program or a read-back that differs, the bytes before k hold  *)
(* their source values (nothing is rolled back), no byte after k is        *)
(* programmed or changed, and the bytes were programmed in ascending       *)
(* order of address, each once at most, each with its source value.        *)
(***************************************************************************)
C21_AbortKeepsPrefixAndStops ==
  [][(calls' # calls /\ Aborted(last'))
     => LET c == last'
            p == Programs(c)
            k == AbortIndex(c)
        IN /\ Len(p) >= 1 /\ k >= 0
           /\ \A i \in 1..Len(p) : p[i][3] = BufAt(c.buf, p[i][2] - AddrOf(c))
           /\ \A i \in 1..(Len(p) - 1) : p[i][2] < p[i + 1][2]
           /\ \A a \in Sampled :
                /\ (AddrOf(c) <= a /\ a - AddrOf(c) < k)
                   => (flash'[a] = BufAt(c.buf, a - AddrOf(c)) /\ \E i \in 1..Len(p) : p[i][2] = a)
                /\ a - AddrOf(c) > k => (flash'[a] = flash[a] /\ \A i \in 1..Len(p) : p[i][2] # a)
                /\ a < AddrOf(c) => flash'[a] = flash[a]]_vars

\* The first call, a write of 0x0F to the last byte of sector 6 and the
\* first of sector 7, has aborted at index 1 on a read-back that differed:
\* the byte at index 0 holds 0x0F.
C21_Witness ==
  /\ calls = 1 /\ Aborted(last) /\ last.path = "mismatch" /\ AbortIndex(last) = 1
  /\ Len(Programs(last)) = 2
  /\ flash[LITTLE_FS_STARTIN_ADDRESS + FLASH_SECTOR_SIZE_BYTES - 1] = 15
  /\ flash[LITTLE_FS_STARTIN_ADDRESS + FLASH_SECTOR_SIZE_BYTES] = 0

(***************************************************************************)
(* C22.  In a write of either variant every call of HAL_FLASH_Program that *)
(* succeeds is followed at once by the read-back of the same byte, before  *)
(* any other byte is programmed, and the byte read is compared with the    *)
(* source byte whatever its value, 0xFF included: a read-back that differs *)
(* ends the loop and the write returns -1; a write that returns size (a    *)
(* size below 2^31: the int returned holds no larger one) has left by the  *)
(* final return, having programmed and read back every byte of its range,  *)
(* each equal to its source byte.                                          *)
(***************************************************************************)
C22_EveryByteReadBackAndCompared ==
  [][(calls' # calls /\ last'.op = "write")
     => LET c == last'
            hw == c.hw
            verified == {hw[j][2] : j \in {j \in HwOps(hw, "ReadBack") : hw[j][3] = hw[j - 1][3]}}
        IN /\ \A i \in HwOps(hw, "Program") :
                /\ hw[i][3] = BufAt(c.buf, hw[i][2] - AddrOf(c))
                /\ \/ (i < Len(hw) /\ hw[i + 1][1] = "ReadBack" /\ hw[i + 1][2] = hw[i][2])
                   \/ (c.path = "hal" /\ i = Len(hw) - 1)
           /\ \A j \in HwOps(hw, "ReadBack") :
                /\ j > 1 /\ hw[j - 1][1] = "Program" /\ hw[j - 1][2] = hw[j][2]
                /\ hw[j][3] # hw[j - 1][3]
                   => (c.path = "mismatch" /\ c.ret = -1 /\ j = Len(hw) - 1 /\ hw[j + 1] = <<"Lock">>)
           /\ (c.returned /\ c.size > 0 /\ c.ret = c.size)
              => (/\ c.path = "ok"
                  /\ CellsIn(AddrOf(c), c.size) \subseteq verified
                  /\ \A a \in CellsIn(AddrOf(c), c.size) : flash'[a] = BufAt(c.buf, a - AddrOf(c)))]_vars

\* A write of 0xFF over a byte that holds another value has been read back
\* and has aborted on the comparison.
C22_Witness ==
  /\ last.op = "write" /\ last.path = "mismatch" /\ last.buf = <<255, 255>>
  /\ \E j \in HwOps(last.hw, "ReadBack") : last.hw[j][3] # ERASED /\ last.hw[j - 1] = <<"Program", last.hw[j][2], ERASED>>

(***************************************************************************)
(* Two calls, one after the other, of the functions that unlock the flash  *)
(* controller: erase and write of the class, erase and write of main.cpp   *)
(* through cfg, and erase_littlefs_region.                                 *)
(***************************************************************************)
NextBrackets ==
  \/ \E r \in Ranges : \E F \in EraseFailures(r[1], r[2]) :
       FirstOrSecond /\ adapter' = adapter /\ FAL_erase(r[1], r[2], F)
  \/ \E w \in WriteRequests : \E h \in ProgramFailures(w[1][1], w[1][2]) :
       FirstOrSecond /\ adapter' = adapter /\ FAL_write(w[1][1], w[2], w[1][2], h)
  \/ \E F \in {{}, {FLASH_SECTOR_6}, {FLASH_SECTOR_7}} :
       FirstOrSecond /\ adapter' = adapter /\ erase_littlefs_region(F)
  \/ \E q \in AdapterRequests : \E b \in Bufs :
       \E h \in main_ProgramFailures(lfs_offset(q[1], q[2], q[3]), q[4]) :
         FirstOrSecond /\ lfs_write(q[1], q[2], q[3], b, q[4], h)
  \/ \E e \in AdapterBlocks : \E F \in main_EraseFailures(lfs_offset(e[1], e[2], 0), e[1].block_size) :
       FirstOrSecond /\ lfs_erase(e[1], e[2], F)

SpecBrackets == Init /\ [][NextBrackets]_vars

\* The places of the erase and program operations in the log of a call.
EraseAndProgramOps(hw) == HwOps(hw, "Erase") \cup HwOps(hw, "Program")

(***************************************************************************)
(* C23.  The flash controller is locked whenever no call is in progress;   *)
(* every return of erase and write, of the class and of main.cpp, and of   *)
(* erase_littlefs_region leaves it locked: success, hardware failure,      *)
(* read-back mismatch, failed validation.  A call that issues an erase or  *)
(* a program operation starts with the controller locked, unlocks it once, *)
(* before the first such operation, and locks it once, after the last one, *)
(* as its last access; a call that does not return (a bus fault inside the *)
(* loop of write) never locks it.                                          *)
(***************************************************************************)
C23_UnlockOperateLockBracket ==
  /\ [](Running => locked)
  /\ [][calls' # calls
        => LET c == last'
               hw == c.hw
           IN /\ EraseAndProgramOps(hw) # {} => HwOps(hw, "Unlock") # {}
              /\ hw = <<>> => (locked' = locked /\ c.path = "rejected")
              /\ hw # <<>>
                 => (/\ locked /\ Running
                     /\ HwOps(hw, "Unlock") = {1}
                     /\ \A i \in EraseAndProgramOps(hw) : 1 < i
                     /\ c.returned => (/\ HwOps(hw, "Lock") = {Len(hw)} /\ locked'
                                       /\ \A i \in EraseAndProgramOps(hw) : i < Len(hw))
                     /\ ~c.returned => (HwOps(hw, "Lock") = {} /\ ~locked'))]_vars

\* An erase of the class that the hardware failed, then a write of the
\* class that aborted on a read-back: both have left the controller locked.
C23_Witness ==
  /\ calls = 2 /\ locked
  /\ prev.op = "erase" /\ prev.path = "hal" /\ prev.hw[Len(prev.hw)] = <<"Lock">>
  /\ last.op = "write" /\ last.path = "mismatch" /\ last.hw[Len(last.hw)] = <<"Lock">>

(***************************************************************************)
(* C24.  verify_flash_erased(addr, size), of the class and of main.cpp,    *)
(* returns true if and only if every byte of [addr, addr + size) is 0xFF;  *)
(* when it returns false it has incremented ef_err_port_cnt by one, when   *)
(* it returns true it has left it unchanged; it never changes a flash      *)
(* byte, the lock, the read counter or the write counter.                  *)
(***************************************************************************)
C24_VerifyErasedIffAllFFAndCountsFailure ==
  [][(calls' # calls /\ last'.op = "verify")
     => (/\ last'.returned /\ last'.ret \in {0, 1}
         /\ last'.ret = 1 <=> \A a \in CellsIn(last'.offset, last'.size) : flash[a] = ERASED
         /\ ef_err_port_cnt' = IF last'.ret = 1 THEN ef_err_port_cnt ELSE ef_err_port_cnt + 1
         /\ flash' = flash
         /\ locked' = locked
         /\ on_ic_read_cnt' = on_ic_read_cnt
         /\ on_ic_write_cnt' = on_ic_write_cnt)]_vars

\* The sizes of sectors 0 to 7, in KiB, as the source's list of sector
\* bases gives them in its comments.
SectorKBytes == <<16, 16, 16, 16, 64, 128, 128, 128>>

\* The base of unit k: the flash base plus the sizes of the units before.
RECURSIVE UnitBase(_)
UnitBase(k) == IF k = 0 THEN ADDR_FLASH_SECTOR_0 ELSE UnitBase(k - 1) + SectorKBytes[k] * 1024

\* The units whose half-open range [base, base + size) holds address a.
UnitsHolding(a) == {k \in 0..7 : UnitBase(k) <= a /\ a < UnitBase(k) + SectorKBytes[k + 1] * 1024}

(***************************************************************************)
(* C25.  For every address of the device, from 0x08000000 to the last byte *)
(* of sector 7, getSectorFromOffset and stm32_get_sector return the one    *)
(* unit of the layout 4 x 16K, 1 x 64K, 3 x 128K whose half-open range     *)
(* [base, base + size) holds the address: the base of a unit and its last  *)
(* byte give that unit.                                                    *)
(***************************************************************************)
C25_LookupReturnsTheUnitHoldingTheAddress ==
  (LookedUp /\ ADDR_FLASH_SECTOR_0 <= last.offset /\ last.offset < UnitBase(7) + SectorKBytes[8] * 1024)
  => UnitsHolding(last.offset) = {last.ret}

\* The base of sector 5 and the last byte of sector 7 have been looked up.
C25_Witness ==
  /\ LookedUp
  /\ \/ (last.offset = UnitBase(5) /\ last.ret = 5)
     \/ (last.offset = UnitBase(7) + SectorKBytes[8] * 1024 - 1 /\ last.ret = 7)
  /\ UnitsHolding(last.offset) = {last.ret}

(***************************************************************************)
(* C26.  A call of erase of the class issues one erase transaction at      *)
(* most, and a call of write of the class one program operation per byte   *)
(* at most; a call the hardware fails issues nothing after the operation   *)
(* that failed, counts the error and returns -1; an erase that leaves a    *)
(* byte of the sectors of its transaction other than 0xFF returns -1.      *)
(***************************************************************************)
C26_HardwareFailureIsNotRetried ==
  [][(calls' # calls /\ last'.op \in {"erase", "write"})
     => LET c == last'
            hw == c.hw
        IN /\ c.op = "erase" => (Cardinality(HwOps(hw, "Erase")) <= 1 /\ HwOps(hw, "Program") = {})
           /\ c.op = "write"
              => (/\ HwOps(hw, "Erase") = {}
                  /\ \A i, j \in HwOps(hw, "Program") : hw[i][2] = hw[j][2] => i = j)
           /\ c.path = "hal"
              => (/\ c.returned /\ c.ret = -1 /\ c.ret < 0
                  /\ ef_err_port_cnt' = ef_err_port_cnt + 1
                  /\ on_ic_write_cnt' = on_ic_write_cnt
                  /\ Len(hw) >= 3 /\ hw[Len(hw)] = <<"Lock">>
                  /\ hw[Len(hw) - 1][1] = (IF c.op = "erase" THEN "Erase" ELSE "Program"))
           /\ (c.op = "erase" /\ c.path # "rejected")
              => (/\ HwOps(hw, "Erase") = {2}
                  /\ (\E a \in Sampled : HwSectorOf(a) \in EraseSpan(hw[2][2], hw[2][3]) /\ flash'[a] # ERASED)
                     => c.path = "hal")]_vars

\* The first call, an erase of both sectors, has returned -1 after the one
\* transaction it issued: the hardware failed sector 7, which is left as it
\* was.
C26_Witness ==
  /\ calls = 1 /\ last.op = "erase" /\ last.path = "hal" /\ last.ret = -1
  /\ HwOps(last.hw, "Erase") = {2} /\ last.hw[2] = <<"Erase", 6, 2>>
  /\ flash[LITTLE_FS_STARTIN_ADDRESS] = ERASED
  /\ flash[LITTLE_FS_STARTIN_ADDRESS + FLASH_SECTOR_SIZE_BYTES] # ERASED
  /\ ef_err_port_cnt = 1

\* TRUE iff call c of the class passed the validation of its arguments.
Accepted(c) == IsEngineCall(c) /\ c.path # "rejected"

(***************************************************************************)
(* C27.  On every request the class accepts, the functions read, write and *)
(* erase of main.cpp do what the methods of the class of the same names    *)
(* do: from the same flash contents, lock and counters, with the same      *)
(* outcomes of the hardware, a step of the method is a step of the         *)
(* function, so that both return the same value, issue the same hardware   *)
(* operations and leave the same flash contents, lock and counters.        *)
(***************************************************************************)
C27_FreeFunctionsDoWhatTheMethodsDo ==
  [][(calls' # calls /\ Accepted(last'))
     => LET c == last' IN
        /\ \A F \in EraseFailures(c.offset, c.size) :
             (c.op = "erase" /\ FAL_erase(c.offset, c.size, F)) => main_erase(c.offset, c.size, F)
        /\ \A h \in ProgramFailures(c.offset, c.size) :
             (c.op = "write" /\ FAL_write(c.offset, c.buf, c.size, h)) => main_write(c.offset, c.buf, c.size, h)
        /\ (c.op = "read" /\ FAL_read(c.offset, c.nullbuf, c.size)) => main_read(c.offset, c.size)
        /\ \/ \E F \in EraseFailures(c.offset, c.size) : c.op = "erase" /\ FAL_erase(c.offset, c.size, F)
           \/ \E h \in ProgramFailures(c.offset, c.size) : c.op = "write" /\ FAL_write(c.offset, c.buf, c.size, h)
           \/ c.op = "read" /\ FAL_read(c.offset, c.nullbuf, c.size)]_vars

\* The second call, an erase of both sectors that the hardware failed, has
\* returned after a write that was counted.
C27_Witness ==
  /\ calls = 2 /\ Accepted(last) /\ last.op = "erase" /\ last.path = "hal"
  /\ last.hw = <<<<"Unlock">>, <<"Erase", 6, 2>>, <<"Lock">>>>
  /\ on_ic_write_cnt = 1 /\ ef_err_port_cnt = 1
====
